---- MODULE Spec2Model ----
(***************************************************************************)
(* Offline asset persistence of the Video PWA.                             *)
(*                                                                         *)
(*  - TabDownloads (src/unnamed/part_001, lines 455-651): the OPFS-backed  *)
(*    download list: the mount effect that rebuilds the list, handleAdd    *)
(*    and handleRemove, over the OPFS "videos" directory and the           *)
(*    localStorage key video_downloads_opfs_meta.                          *)
(*  - src/service-worker.js: the install / activate / fetch handlers over  *)
(*    the Cache Storage.                                                   *)
(*                                                                         *)
(* An action is the code between two suspension points of a handler; awaits *)
(* whose order no other operation of the model can observe are taken in    *)
(* one action.                                                             *)
(***************************************************************************)
EXTENDS Integers, Sequences, FiniteSets, TLC

\* ------------------------------------------------------------------ bounds
MaxSize == 2     \* picked files have 1..MaxSize bytes
MaxPicks == 2    \* files returned by one showOpenFilePicker call
MaxUrl == 3      \* object URLs created in one page session
MaxBody == 2     \* versions of a body the server may answer with

Names == {"a.mp4", "b.mp4"}
Files == [name : Names, size : 1..MaxSize]

VARIABLES
    hasOPFS,         \* part_001:462, fixed for the browser
    pickerSupported, \* part_001:536, fixed for the browser
    opfs,            \* the OPFS "videos" directory: file name -> byte length
    meta,            \* localStorage[DL_VIDS_META_KEY]: sequence of {name, size}
    videos,          \* useState videos: sequence of {name, size, url}
    opfsAvailable,   \* useState opfsAvailable
    nextUrl,         \* number of object URLs created in this page session
    mount,           \* the mount effect's async function
    add,             \* the handleAdd call in flight
    rem,             \* the handleRemove call in flight
    last,            \* history: the last operation that ran to completion, with
                     \* the message it gave to showToast
    swState,         \* the worker's lifecycle state
    caches,          \* CacheStorage: cache name -> (URL -> body)
    inst,            \* the install handler's async function
    act,             \* the activate handler's async function: the keys it found
                     \* stale, the deletions not yet settled, and (history) the
                     \* current cache as it was when caches.keys() resolved;
                     \* kept until the worker is handed its first fetch event
    handler,         \* the fetch handler in flight, and what it answered last
    puts,            \* cache.put calls that nothing awaits, not yet settled
    servedOk         \* history: URLs a handler answered with a successful
                     \* network response

amVars == <<hasOPFS, pickerSupported, opfs, meta, videos, opfsAvailable,
            nextUrl, mount, add, rem, last>>

swVars == <<swState, caches, inst, act, handler, puts, servedOk>>

vars == <<amVars, swVars>>

\* --------------------------------------------------------------- sequences
SeqNames(s) == {s[k].name : k \in DOMAIN s}

WithoutName(s, name) == SelectSeq(s, LAMBDA m : m.name # name)

NoDuplicateNames(s) == \A j, k \in DOMAIN s : s[j].name = s[k].name => j = k

RECURSIVE SeqsUpTo(_, _)
SeqsUpTo(S, n) ==
    IF n = 0 THEN {<<>>}
    ELSE LET shorter == SeqsUpTo(S, n - 1)
         IN  shorter \cup {Append(s, x) : s \in shorter, x \in S}

\* What showOpenFilePicker({multiple: true}) resolves to: one or more files of
\* one directory, so no two of them share a name.
PickLists ==
    {p \in SeqsUpTo(Files, MaxPicks) : Len(p) >= 1 /\ NoDuplicateNames(p)}

\* ------------------------------------------------------------ OPFS helpers
\* dir.getFileHandle(name, {create: true}): an absent file is created empty.
GetFileHandleCreate(store, name) ==
    IF name \in DOMAIN store THEN store ELSE store @@ (name :> 0)

\* file.stream().pipeTo(writable): the content replaces the file when the
\* writable closes.
PipeTo(store, file) == [store EXCEPT ![file.name] = file.size]

\* Mutant of WriteFileToOPFS: an existing file of that name is left as it is.
WriteFileNoOverwrite(store, file) ==
    IF file.name \in DOMAIN store THEN store
    ELSE PipeTo(GetFileHandleCreate(store, file.name), file)

\* writeFileToOPFS: an existing file of that name is overwritten.
WriteFileToOPFS(store, file) ==
    PipeTo(GetFileHandleCreate(store, file.name), file)

\* readFileFromOPFS: getFileHandle(name, {create: false}) rejects with
\* NotFoundError when the file is absent.
ReadFileFromOPFS(store, name) ==
    IF name \in DOMAIN store
    THEN [ok |-> TRUE, size |-> store[name]]
    ELSE [ok |-> FALSE, size |-> 0]

\* deleteFromOPFS: dir.removeEntry(name) rejects with NotFoundError when the
\* entry is absent.
DeleteFromOPFS(store, name) ==
    IF name \in DOMAIN store
    THEN [ok |-> TRUE, store |-> [n \in DOMAIN store \ {name} |-> store[n]]]
    ELSE [ok |-> FALSE, store |-> store]

\* ------------------------------------------------------- metadata merging
\* Map.prototype.set: an existing key keeps its position and takes the new
\* value, a new key is appended.
MapSet(byName, m) ==
    IF m.name \in SeqNames(byName)
    THEN [k \in DOMAIN byName |->
            IF byName[k].name = m.name THEN m ELSE byName[k]]
    ELSE Append(byName, m)

RECURSIVE MapSetAll(_, _)
MapSetAll(byName, records) ==
    IF records = <<>> THEN byName
    ELSE MapSetAll(MapSet(byName, Head(records)), Tail(records))

\* Mutant of MergeMeta: the added records are appended, nothing is replaced.
MergeMetaAppend(existing, addedMeta) == existing \o addedMeta

\* handleAdd: new Map(existing...), byName.set for each added,
\* Array.from(byName.values()).
MergeMeta(existing, addedMeta) ==
    MapSetAll(MapSetAll(<<>>, existing), addedMeta)

\* ------------------------------------------------------------- idle states
MountDone == [pc |-> "done", meta |-> <<>>, i |-> 0, rebuilt |-> <<>>]

AddIdle == [pc |-> "idle", picks |-> <<>>, i |-> 0, addedMeta |-> <<>>,
            existing |-> <<>>, merged |-> <<>>, j |-> 0, rebuilt |-> <<>>]

RemIdle == [pc |-> "idle", name |-> ""]

\* op: the handler that ended last ("none" once anything else has happened
\* since); toast: what it gave to showToast; rebuilt: a page load's rebuild has
\* completed since it ended.
NoOp == [op |-> "none", name |-> "", picks |-> <<>>, toast |-> "none",
         rebuilt |-> FALSE]

Quiescent == mount.pc = "done" /\ add.pc = "idle" /\ rem.pc = "idle"

AMInit ==
    /\ hasOPFS \in BOOLEAN
    /\ pickerSupported \in BOOLEAN
    /\ opfs = << >>
    /\ meta = <<>>
    /\ videos = <<>>
    /\ opfsAvailable = hasOPFS
    /\ nextUrl = 0
    /\ mount = MountDone
    /\ add = AddIdle
    /\ rem = RemIdle
    /\ last = NoOp

\* ------------------------------------------------------------ mount effect
\* Mutant of RebuildPush: a rejected read throws away what was rebuilt so far.
RebuildPushAbort(rebuilt, m, url) ==
    LET r == ReadFileFromOPFS(opfs, m.name)
    IN  IF r.ok
        THEN Append(rebuilt, [name |-> m.name, size |-> r.size, url |-> url])
        ELSE <<>>

\* The rebuild loop body: one readFileFromOPFS, and on success one object URL
\* and one entry pushed; a rejected read is swallowed by the empty catch.
RebuildPush(rebuilt, m, url) ==
    LET r == ReadFileFromOPFS(opfs, m.name)
    IN  IF r.ok
        THEN Append(rebuilt, [name |-> m.name, size |-> r.size, url |-> url])
        ELSE rebuilt

\* URL.createObjectURL hands out a URL never used before in this document.
CanRead(m) == ReadFileFromOPFS(opfs, m.name).ok => nextUrl < MaxUrl

UrlsAfter(m) == IF ReadFileFromOPFS(opfs, m.name).ok THEN nextUrl + 1 ELSE nextUrl

\* The object URLs of this document that have not been revoked. None of the
\* handlers calls URL.revokeObjectURL; the function that would
\* (part_001:526-529) is the value the effect's async function resolves to,
\* not the effect's cleanup, so nothing ever calls it.
Unreleased == 1..nextUrl

\* A page load: the document, its object URLs and its pending promises are
\* gone, TabDownloads mounts and its effect runs up to the first await.
\* (Without OPFS nothing ever writes the metadata, so the effect's warning
\* for a non-empty metadata list is never given.)
Reload ==
    /\ add' = AddIdle
    /\ rem' = RemIdle
    /\ nextUrl' = 0
    /\ videos' = <<>>
    /\ opfsAvailable' = hasOPFS
    /\ mount' = IF hasOPFS /\ meta # <<>>
                THEN [pc |-> "reading", meta |-> meta, i |-> 1, rebuilt |-> <<>>]
                ELSE MountDone
    /\ last' = IF Quiescent
               THEN [last EXCEPT !.rebuilt = ~(hasOPFS /\ meta # <<>>)]
               ELSE NoOp
    /\ UNCHANGED swVars
    /\ UNCHANGED <<hasOPFS, pickerSupported, opfs, meta>>

\* One iteration of the mount effect's loop; after the last one,
\* setVideos(rebuilt).
MountRead ==
    /\ mount.pc = "reading"
    /\ LET m == mount.meta[mount.i]
           rebuilt == RebuildPush(mount.rebuilt, m, nextUrl + 1)
       IN  /\ CanRead(m)
           /\ nextUrl' = UrlsAfter(m)
           /\ IF mount.i < Len(mount.meta)
              THEN /\ mount' = [mount EXCEPT !.i = @ + 1, !.rebuilt = rebuilt]
                   /\ UNCHANGED <<videos, last>>
              ELSE /\ mount' = MountDone
                   /\ videos' = rebuilt
                   /\ last' = [last EXCEPT !.rebuilt = TRUE]
    /\ UNCHANGED swVars
    /\ UNCHANGED <<hasOPFS, pickerSupported, opfs, meta, opfsAvailable, add, rem>>

\* --------------------------------------------------------------- handleAdd
\* The picks are remembered for the imports that report success only.
AddDone(toast) ==
    [NoOp EXCEPT !.op = "add", !.toast = toast,
                 !.picks = IF toast = "Video(s) saved for offline use"
                           THEN add.picks ELSE <<>>]

\* "showOpenFilePicker" in window is false.
HandleAddNoPicker ==
    /\ ~pickerSupported
    /\ last' = AddDone("This browser can't open files (no picker).")
    /\ UNCHANGED swVars
    /\ UNCHANGED <<hasOPFS, pickerSupported, opfs, meta, videos, opfsAvailable,
                   nextUrl, mount, add, rem>>

\* The user dismisses the picker: AbortError, which the catch ignores.
HandleAddAbort ==
    /\ pickerSupported
    /\ last' = AddDone("none")
    /\ UNCHANGED swVars
    /\ UNCHANGED <<hasOPFS, pickerSupported, opfs, meta, videos, opfsAvailable,
                   nextUrl, mount, add, rem>>

\* The picker resolves with picks; the loop starts at its first await.
HandleAdd(picks) ==
    /\ pickerSupported
    /\ add' = [AddIdle EXCEPT !.pc = "write", !.picks = picks, !.i = 1]
    /\ last' = NoOp
    /\ UNCHANGED swVars
    /\ UNCHANGED <<hasOPFS, pickerSupported, opfs, meta, videos, opfsAvailable,
                   nextUrl, mount, rem>>

\* Mutant of AddWriteFile: the metadata is merged and stored after every
\* file, not once after the last.
AddWriteFileEager ==
    /\ add.pc = "write"
    /\ hasOPFS
    /\ LET file == add.picks[add.i]
           addedMeta == Append(add.addedMeta, [name |-> file.name, size |-> file.size])
           merged == MergeMeta(meta, addedMeta)
       IN  /\ opfs' = WriteFileToOPFS(opfs, file)
           /\ meta' = merged
           /\ IF add.i < Len(add.picks)
              THEN add' = [add EXCEPT !.i = @ + 1, !.addedMeta = addedMeta]
              ELSE add' = [add EXCEPT !.pc = "rebuild", !.i = @ + 1,
                                      !.addedMeta = addedMeta,
                                      !.existing = meta,
                                      !.merged = merged, !.j = 1]
    /\ UNCHANGED swVars
    /\ UNCHANGED <<hasOPFS, pickerSupported, videos, opfsAvailable, nextUrl,
                   mount, rem, last>>

\* await handle.getFile(), await writeFileToOPFS(file) and addedMeta.push;
\* after the last file the merge and ls.set, up to the first read of the
\* rebuild.
AddWriteFile ==
    /\ add.pc = "write"
    /\ hasOPFS
    /\ LET file == add.picks[add.i]
           addedMeta == Append(add.addedMeta, [name |-> file.name, size |-> file.size])
       IN  /\ opfs' = WriteFileToOPFS(opfs, file)
           /\ IF add.i < Len(add.picks)
              THEN /\ add' = [add EXCEPT !.i = @ + 1, !.addedMeta = addedMeta]
                   /\ UNCHANGED meta
              ELSE LET merged == MergeMeta(meta, addedMeta)
                   IN  /\ meta' = merged
                       /\ add' = [add EXCEPT !.pc = "rebuild", !.i = @ + 1,
                                             !.addedMeta = addedMeta,
                                             !.existing = meta,
                                             !.merged = merged, !.j = 1]
    /\ UNCHANGED swVars
    /\ UNCHANGED <<hasOPFS, pickerSupported, videos, opfsAvailable, nextUrl,
                   mount, rem, last>>

\* handle.getFile() rejects (the file is gone), or the write rejects after
\* getFileHandle has created the file (the quota is exceeded, the stream
\* fails): the catch reports it and the handler ends.
AddFail(created) ==
    /\ add.pc = "write"
    /\ created => hasOPFS
    /\ opfs' = IF created THEN GetFileHandleCreate(opfs, add.picks[add.i].name)
               ELSE opfs
    /\ last' = AddDone("Failed to add video")
    /\ add' = AddIdle
    /\ UNCHANGED swVars
    /\ UNCHANGED <<hasOPFS, pickerSupported, meta, videos, opfsAvailable,
                   nextUrl, mount, rem>>

\* Mutant of AddFallback: setVideos is given the new entry alone, not the
\* previous list with the entry appended.
AddFallbackReplace ==
    /\ add.pc = "write"
    /\ ~hasOPFS
    /\ nextUrl < MaxUrl
    /\ LET file == add.picks[add.i]
       IN  videos' = <<[name |-> file.name, size |-> file.size, url |-> nextUrl + 1]>>
    /\ nextUrl' = nextUrl + 1
    /\ IF add.i < Len(add.picks)
       THEN /\ add' = [add EXCEPT !.i = @ + 1]
            /\ UNCHANGED last
       ELSE /\ add' = AddIdle
            /\ last' = AddDone("Video(s) added (session-only)")
    /\ UNCHANGED swVars
    /\ UNCHANGED <<hasOPFS, pickerSupported, opfs, meta, opfsAvailable, mount, rem>>

\* !hasOPFS: a session-only object URL appended to the list; after the last
\* file the else branch's toast.
AddFallback ==
    /\ add.pc = "write"
    /\ ~hasOPFS
    /\ nextUrl < MaxUrl
    /\ LET file == add.picks[add.i]
       IN  videos' = Append(videos, [name |-> file.name, size |-> file.size,
                                     url |-> nextUrl + 1])
    /\ nextUrl' = nextUrl + 1
    /\ IF add.i < Len(add.picks)
       THEN /\ add' = [add EXCEPT !.i = @ + 1]
            /\ UNCHANGED last
       ELSE /\ add' = AddIdle
            /\ last' = AddDone("Video(s) added (session-only)")
    /\ UNCHANGED swVars
    /\ UNCHANGED <<hasOPFS, pickerSupported, opfs, meta, opfsAvailable, mount, rem>>

\* One iteration of handleAdd's rebuild loop; after the last one,
\* setVideos(rebuilt) and the success toast.
AddRebuildRead ==
    /\ add.pc = "rebuild"
    /\ LET m == add.merged[add.j]
           rebuilt == RebuildPush(add.rebuilt, m, nextUrl + 1)
       IN  /\ CanRead(m)
           /\ nextUrl' = UrlsAfter(m)
           /\ IF add.j < Len(add.merged)
              THEN /\ add' = [add EXCEPT !.j = @ + 1, !.rebuilt = rebuilt]
                   /\ UNCHANGED <<videos, last>>
              ELSE /\ add' = AddIdle
                   /\ videos' = rebuilt
                   /\ last' = AddDone("Video(s) saved for offline use")
    /\ UNCHANGED swVars
    /\ UNCHANGED <<hasOPFS, pickerSupported, opfs, meta, opfsAvailable, mount, rem>>

\* ------------------------------------------------------------ handleRemove
RemoveDone(name, toast) ==
    [NoOp EXCEPT !.op = "remove", !.name = name, !.toast = toast]

\* Mutant of HandleRemove: only the in-memory list is filtered.
HandleRemoveMemoryOnly(name) ==
    /\ name \in SeqNames(videos)
    /\ videos' = WithoutName(videos, name)
    /\ last' = RemoveDone(name, "Removed")
    /\ UNCHANGED swVars
    /\ UNCHANGED <<hasOPFS, pickerSupported, opfs, meta, opfsAvailable, nextUrl,
                   mount, add, rem>>

\* The Delete button of a listed video, up to await deleteFromOPFS(name).
HandleRemove(name) ==
    /\ name \in SeqNames(videos)
    /\ IF hasOPFS
       THEN /\ rem' = [pc |-> "removeEntry", name |-> name]
            /\ last' = NoOp
            /\ UNCHANGED videos
       ELSE /\ videos' = WithoutName(videos, name)
            /\ last' = RemoveDone(name, "Removed")
            /\ UNCHANGED rem
    /\ UNCHANGED swVars
    /\ UNCHANGED <<hasOPFS, pickerSupported, opfs, meta, opfsAvailable, nextUrl,
                   mount, add>>

\* dir.removeEntry(name) settles.
RemoveEntry ==
    /\ rem.pc = "removeEntry"
    /\ LET r == DeleteFromOPFS(opfs, rem.name)
       IN  /\ opfs' = r.store
           /\ rem' = [rem EXCEPT !.pc = IF r.ok THEN "resolved" ELSE "rejected"]
    /\ UNCHANGED swVars
    /\ UNCHANGED <<hasOPFS, pickerSupported, meta, videos, opfsAvailable,
                   nextUrl, mount, add, last>>

\* After the await: the metadata and the list are filtered.
RemoveResolved ==
    /\ rem.pc = "resolved"
    /\ meta' = WithoutName(meta, rem.name)
    /\ videos' = WithoutName(videos, rem.name)
    /\ last' = RemoveDone(rem.name, "Removed")
    /\ rem' = RemIdle
    /\ UNCHANGED swVars
    /\ UNCHANGED <<hasOPFS, pickerSupported, opfs, opfsAvailable, nextUrl, mount, add>>

\* The catch of handleRemove.
RemoveRejected ==
    /\ rem.pc = "rejected"
    /\ last' = RemoveDone(rem.name, "Could not remove")
    /\ rem' = RemIdle
    /\ UNCHANGED swVars
    /\ UNCHANGED <<hasOPFS, pickerSupported, opfs, meta, videos, opfsAvailable,
                   nextUrl, mount, add>>

\* ------------------------------------------------------------- environment
\* The browser clears a file of the origin's storage ("was deleted or cleared
\* by browser", part_001:516).
Evict(name) ==
    /\ name \in DOMAIN opfs
    /\ opfs' = DeleteFromOPFS(opfs, name).store
    /\ last' = NoOp
    /\ UNCHANGED swVars
    /\ UNCHANGED <<hasOPFS, pickerSupported, meta, videos, opfsAvailable,
                   nextUrl, mount, add, rem>>

\* ========================================================= service worker
CACHE == "app-shell-v1"

ASSETS == <<"./", "index.html", "manifest.json", "assets/icon-192.png",
            "assets/icon-512.png">>

Scope == "https://app.example/video/"

\* new URL(path, self.registration.scope).toString()
scopeURL(path) == IF path = "./" THEN Scope ELSE Scope \o path

indexURL == scopeURL("index.html")

ScriptURL == Scope \o "static/js/main.js"
CrossURL == "https://cdn.example/lib.js"

\* new URL(req.url).origin === self.location.origin
SameOrigin(url) == url \in {scopeURL(ASSETS[k]) : k \in DOMAIN ASSETS} \cup {ScriptURL}

\* Cache names left by earlier versions of the worker, or by anything else
\* of the origin.
OldTags == {"app-shell-v0", "thumbnails"}

\* The fetch events the worker is handed: navigations within its scope, and
\* subresource requests of its pages.
Requests ==
    [method : {"GET", "POST"}, mode : {"navigate"}, url : {Scope}]
    \cup [method : {"GET", "POST"}, mode : {"no-cors"}, url : {ScriptURL, CrossURL}]

NoRequest == [method |-> "", mode |-> "", url |-> ""]

\* A response: where it comes from, its body and response.ok.
NoResponse == [from |-> "none", status |-> 0, body |-> 0]
Cached(body) == [from |-> "cache", status |-> 200, body |-> body]
Fresh(status, body) == [from |-> "network", status |-> status, body |-> body]
Offline == [from |-> "synthesized", status |-> 503, body |-> 0]
Ok(response) == response.status >= 200 /\ response.status <= 299

\* net: how the handler's fetch ended; after: history, the request came after
\* a successful network response for the same URL had been returned.
HandlerIdle == [pc |-> "idle", req |-> NoRequest, cached |-> NoResponse,
                net |-> "none", response |-> NoResponse, after |-> FALSE]

\* caches.open(name): the cache is created when it does not exist.
CachesOpen(storage, name) ==
    IF name \in DOMAIN storage THEN storage ELSE storage @@ (name :> << >>)

\* Mutant of StaleKey: the comparison is inverted.
StaleKeyInverted(k) == k = CACHE

\* k !== CACHE
StaleKey(k) == k # CACHE

\* caches.delete(name)
CachesDelete(storage, name) ==
    [n \in DOMAIN storage \ {name} |-> storage[n]]

\* cache.match(url) on the cache named CACHE
CacheMatch(storage, url) ==
    IF CACHE \in DOMAIN storage /\ url \in DOMAIN storage[CACHE]
    THEN Cached(storage[CACHE][url])
    ELSE NoResponse

\* cache.put(url, response) on the cache named CACHE
CachePut(storage, url, body) ==
    IF CACHE \in DOMAIN storage
    THEN [storage EXCEPT ![CACHE] =
            [u \in DOMAIN @ \cup {url} |-> IF u = url THEN body ELSE @[u]]]
    ELSE storage

\* cache.addAll(urls): every URL is fetched, and only if all of them answer
\* ok are they stored.
CacheAddAll(storage, urls, body) ==
    [storage EXCEPT ![CACHE] =
        [u \in DOMAIN @ \cup urls |-> IF u \in urls THEN body ELSE @[u]]]

ActIdle == [pc |-> "idle", stale |-> {}, pending |-> {}, current |-> << >>]

SWInit ==
    /\ swState = "parsed"
    /\ \E old \in SUBSET OldTags :
          caches = [n \in old |-> [u \in {indexURL} |-> 0]]
    /\ inst = "idle"
    /\ act = ActIdle
    /\ handler = HandlerIdle
    /\ puts = {}
    /\ servedOk = {}

\* ------------------------------------------------------------------ install
\* The install event: the handler runs up to await caches.open(CACHE).
InstallEvent ==
    /\ swState = "parsed"
    /\ swState' = "installing"
    /\ inst' = "open"
    /\ UNCHANGED amVars
    /\ UNCHANGED <<caches, act, handler, puts, servedOk>>

\* caches.open(CACHE) resolves.
InstallOpen ==
    /\ inst = "open"
    /\ caches' = CachesOpen(caches, CACHE)
    /\ inst' = "addAll"
    /\ UNCHANGED amVars
    /\ UNCHANGED <<swState, act, handler, puts, servedOk>>

\* cache.addAll resolves, then self.skipWaiting(): the worker is installed
\* and does not wait to activate.
InstallAddAll(body) ==
    /\ inst = "addAll"
    /\ caches' = CacheAddAll(caches, {scopeURL(ASSETS[k]) : k \in DOMAIN ASSETS}, body)
    /\ inst' = "idle"
    /\ swState' = "installed"
    /\ UNCHANGED amVars
    /\ UNCHANGED <<act, handler, puts, servedOk>>

\* Mutant of InstallAddAllFail: the rejection is caught and the install goes
\* on to skipWaiting.
InstallAddAllFailSwallowed ==
    /\ inst = "addAll"
    /\ inst' = "idle"
    /\ swState' = "installed"
    /\ UNCHANGED amVars
    /\ UNCHANGED <<caches, act, handler, puts, servedOk>>

\* cache.addAll rejects (an asset cannot be fetched, or does not answer ok):
\* the promise given to waitUntil rejects and the worker is discarded.
InstallAddAllFail ==
    /\ inst = "addAll"
    /\ inst' = "idle"
    /\ swState' = "redundant"
    /\ UNCHANGED amVars
    /\ UNCHANGED <<caches, act, handler, puts, servedOk>>

\* The page registers the worker again on its next load (part_000:13-23).
Register ==
    /\ swState = "redundant"
    /\ swState' = "parsed"
    /\ UNCHANGED amVars
    /\ UNCHANGED <<caches, inst, act, handler, puts, servedOk>>

\* ----------------------------------------------------------------- activate
\* The activate event: the handler runs up to await caches.keys().
ActivateEvent ==
    /\ swState = "installed"
    /\ swState' = "activating"
    /\ act' = [ActIdle EXCEPT !.pc = "keys"]
    /\ UNCHANGED amVars
    /\ UNCHANGED <<caches, inst, handler, puts, servedOk>>

\* caches.keys() resolves; keys.map issues a caches.delete for every key
\* that is not CACHE.
ActivateKeys ==
    /\ act.pc = "keys"
    /\ act' = [pc |-> "deleting",
               stale |-> {k \in DOMAIN caches : StaleKey(k)},
               pending |-> {k \in DOMAIN caches : StaleKey(k)},
               current |-> IF CACHE \in DOMAIN caches THEN caches[CACHE] ELSE << >>]
    /\ UNCHANGED amVars
    /\ UNCHANGED <<swState, caches, inst, handler, puts, servedOk>>

\* One of the deletions settles; they settle in any order.
ActivateDelete(k) ==
    /\ act.pc = "deleting"
    /\ k \in act.pending
    /\ caches' = CachesDelete(caches, k)
    /\ act' = [act EXCEPT !.pending = @ \ {k}]
    /\ UNCHANGED amVars
    /\ UNCHANGED <<swState, inst, handler, puts, servedOk>>

\* Mutant of ActivateDone: Promise.all is not awaited, the handler ends and
\* the worker is activated while deletions are pending.
ActivateDoneEarly ==
    /\ act.pc = "deleting"
    /\ act' = [act EXCEPT !.pc = "idle"]
    /\ swState' = "activated"
    /\ UNCHANGED amVars
    /\ UNCHANGED <<caches, inst, handler, puts, servedOk>>

\* Promise.all resolves, then self.clients.claim(): the worker is activated
\* and is handed the fetch events.
ActivateDone ==
    /\ act.pc = "deleting"
    /\ act.pending = {}
    /\ act' = [act EXCEPT !.pc = "idle"]
    /\ swState' = "activated"
    /\ UNCHANGED amVars
    /\ UNCHANGED <<caches, inst, handler, puts, servedOk>>

\* -------------------------------------------------------------------- fetch
\* Mutant of Intercepted: no method guard.
InterceptedAnyMethod(req) ==
    req.mode = "navigate" \/ SameOrigin(req.url)

\* The requests the handler answers with respondWith: the method guard, then
\* the navigation branch or the origin test.
Intercepted(req) ==
    /\ req.method = "GET"
    /\ req.mode = "navigate" \/ SameOrigin(req.url)

\* A fetch event the handler returns from without respondWith: the browser
\* handles the request itself.
FetchPassThrough(req) ==
    /\ swState = "activated"
    /\ handler.pc \in {"idle", "done"}
    /\ ~Intercepted(req)
    /\ handler' = [HandlerIdle EXCEPT !.pc = "done", !.req = req]
    /\ act' = ActIdle
    /\ UNCHANGED amVars
    /\ UNCHANGED <<swState, caches, inst, puts, servedOk>>

\* A fetch event answered with respondWith: the async function runs up to
\* await caches.open(CACHE).
FetchEvent(req) ==
    /\ swState = "activated"
    /\ handler.pc \in {"idle", "done"}
    /\ Intercepted(req)
    /\ handler' = [HandlerIdle EXCEPT !.pc = "match", !.req = req,
                                      !.after = req.url \in servedOk]
    /\ act' = ActIdle
    /\ UNCHANGED amVars
    /\ UNCHANGED <<swState, caches, inst, puts, servedOk>>

\* What the handler looks up: the shell document for a navigation, the
\* request itself otherwise.
MatchKey(req) == IF req.mode = "navigate" THEN indexURL ELSE req.url

\* caches.open(CACHE) and cache.match resolve. A navigation goes on to the
\* network; any other request is answered from the cache on a hit.
FetchMatch ==
    /\ handler.pc = "match"
    /\ caches' = CachesOpen(caches, CACHE)
    /\ LET cached == CacheMatch(caches', MatchKey(handler.req))
       IN  handler' =
              IF handler.req.mode # "navigate" /\ cached # NoResponse
              THEN [handler EXCEPT !.pc = "done", !.cached = cached,
                                   !.response = cached]
              ELSE [handler EXCEPT !.pc = "fetch", !.cached = cached]
    /\ UNCHANGED amVars
    /\ UNCHANGED <<swState, inst, act, puts, servedOk>>

\* return cached || x
OrElse(cached, x) == IF cached # NoResponse THEN cached ELSE x

\* Mutant of NavigateResponse: the cached shell is preferred to the fresh one.
NavigateResponseCacheFirst(cached, fresh) == OrElse(cached, fresh)

\* What the navigation branch answers once fetch(indexURL) has resolved
\* with fresh.
NavigateResponse(cached, fresh) == IF Ok(fresh) THEN fresh ELSE OrElse(cached, fresh)

\* Mutant of CatchResponse: no synthesized response.
CatchResponseCachedOnly(cached) == cached

\* What either branch answers when fetch rejects.
CatchResponse(cached) == OrElse(cached, Offline)

\* fetch resolves with fresh: if (fresh.ok) cache.put(...) is called and
\* not awaited, and the handler answers.
FetchResolved(fresh) ==
    /\ handler.pc = "fetch"
    /\ handler' = [handler EXCEPT
          !.pc = "done",
          !.net = IF Ok(fresh) THEN "ok" ELSE "not ok",
          !.response = IF handler.req.mode = "navigate"
                       THEN NavigateResponse(handler.cached, fresh)
                       ELSE fresh]
    /\ puts' = IF Ok(fresh)
               THEN puts \cup {[url |-> MatchKey(handler.req), body |-> fresh.body]}
               ELSE puts
    /\ servedOk' = IF Ok(fresh) /\ handler.req.mode # "navigate"
                   THEN servedOk \cup {handler.req.url} ELSE servedOk
    /\ UNCHANGED amVars
    /\ UNCHANGED <<swState, caches, inst, act>>

\* fetch rejects: the catch answers.
FetchRejected ==
    /\ handler.pc = "fetch"
    /\ handler' = [handler EXCEPT !.pc = "done", !.net = "failed",
                                  !.response = CatchResponse(handler.cached)]
    /\ UNCHANGED amVars
    /\ UNCHANGED <<swState, caches, inst, act, puts, servedOk>>

\* A cache.put that nothing awaits settles.
PutSettles(p) ==
    /\ p \in puts
    /\ caches' = CachePut(caches, p.url, p.body)
    /\ puts' = puts \ {p}
    /\ UNCHANGED amVars
    /\ UNCHANGED <<swState, inst, act, handler, servedOk>>

\* The user or the browser clears the origin's Cache Storage while the
\* worker stays registered.
ClearCacheStorage ==
    /\ swState = "activated"
    /\ caches # << >>
    /\ caches' = << >>
    /\ servedOk' = {}
    /\ handler' = [handler EXCEPT !.after = FALSE]
    /\ UNCHANGED amVars
    /\ UNCHANGED <<swState, inst, act, puts>>

FreshResponses ==
    {Fresh(200, b) : b \in 1..MaxBody} \cup {Fresh(404, 0)}

NextSW ==
    \/ InstallEvent
    \/ InstallOpen
    \/ \E body \in 1..MaxBody : InstallAddAll(body)
    \/ InstallAddAllFail
    \/ Register
    \/ ActivateEvent
    \/ ActivateKeys
    \/ \E k \in OldTags \cup {CACHE} : ActivateDelete(k)
    \/ ActivateDone
    \/ \E req \in Requests : FetchPassThrough(req)
    \/ \E req \in Requests : FetchEvent(req)
    \/ FetchMatch
    \/ \E fresh \in FreshResponses : FetchResolved(fresh)
    \/ FetchRejected
    \/ \E p \in puts : PutSettles(p)
    \/ ClearCacheStorage

\* ------------------------------------------------------------ specification
\* The download list, with the worker left as registered.
Init ==
    /\ AMInit
    /\ SWInit
    /\ caches = << >>

\* One operation at a time: a handler starts, and the browser evicts, only
\* while nothing else is in flight; a page load may interrupt anything.
Next ==
    \/ Reload
    \/ MountRead
    \/ Quiescent /\ HandleAddNoPicker
    \/ Quiescent /\ HandleAddAbort
    \/ \E picks \in PickLists : Quiescent /\ HandleAdd(picks)
    \/ AddWriteFile
    \/ \E created \in BOOLEAN : AddFail(created)
    \/ AddFallback
    \/ AddRebuildRead
    \/ \E name \in Names : Quiescent /\ HandleRemove(name)
    \/ RemoveEntry
    \/ RemoveResolved
    \/ RemoveRejected
    \/ \E name \in Names : Quiescent /\ Evict(name)

Spec == Init /\ [][Next]_vars

\* The download list with OPFS and the picker, where the Delete button is
\* used while an import is in flight: handleAdd stays suspended at its await
\* until the handleRemove that started meanwhile has ended. No page load, no
\* eviction and no failing write.
InitRace ==
    /\ Init
    /\ hasOPFS
    /\ pickerSupported

NextRace ==
    \/ \E picks \in PickLists : Quiescent /\ HandleAdd(picks)
    \/ rem.pc = "idle" /\ AddWriteFile
    \/ rem.pc = "idle" /\ AddRebuildRead
    \/ \E name \in Names : rem.pc = "idle" /\ HandleRemove(name)
    \/ RemoveEntry
    \/ RemoveResolved
    \/ RemoveRejected

SpecRace == InitRace /\ [][NextRace]_vars

\* The worker, in a browser with OPFS and the file picker.
InitSW ==
    /\ AMInit
    /\ hasOPFS
    /\ pickerSupported
    /\ SWInit

SpecSW == InitSW /\ [][NextSW]_vars

\* =================================================================== claims
ListedOf(v) == [k \in DOMAIN v |-> [name |-> v[k].name, size |-> v[k].size]]

\* The records of metaSeq whose file can be read now, each with the size of
\* the file.
ReadableOf(metaSeq) ==
    LET readable == SelectSeq(metaSeq, LAMBDA m : ReadFileFromOPFS(opfs, m.name).ok)
    IN  [k \in DOMAIN readable |->
            [name |-> readable[k].name,
             size |-> ReadFileFromOPFS(opfs, readable[k].name).size]]

Lists(v, file) ==
    \E k \in DOMAIN v : v[k].name = file.name /\ v[k].size = file.size

Saved == last.op = "add" /\ last.toast = "Video(s) saved for offline use"

\* C1: while an import is in flight the metadata changes in one step only,
\* the one that follows the last write, and at that step every picked file is
\* in OPFS with its full size; a failed or interrupted import leaves the
\* metadata as it was.
C1_WriteBeforeIndex ==
    [][ ((add.pc # "idle" \/ add'.pc # "idle") /\ meta' # meta) =>
            /\ add.pc = "write"
            /\ add.i = Len(add.picks)
            /\ add'.pc = "rebuild"
            /\ SeqNames(meta') \ SeqNames(meta) \subseteq SeqNames(add.picks)
            /\ \A k \in DOMAIN add.picks :
                  ReadFileFromOPFS(opfs', add.picks[k].name) =
                      [ok |-> TRUE, size |-> add.picks[k].size] ]_vars

\* A failed import has left a file persisted but unlisted.
C1_Witness ==
    /\ last.op = "add"
    /\ last.toast = "Failed to add video"
    /\ \E n \in DOMAIN opfs : opfs[n] > 0 /\ n \notin SeqNames(meta)

\* C2 (as claimed): when handleRemove(name) has ended, it reported "Removed"
\* and name is neither in the metadata nor in the list.
C2_RemoveAlwaysSucceeds ==
    (last.op = "remove" /\ ~last.rebuilt /\ mount.pc = "done") =>
        /\ last.toast = "Removed"
        /\ last.name \notin SeqNames(meta)
        /\ last.name \notin SeqNames(videos)

\* C3: when the mount effect's rebuild has completed, the list holds, in the
\* order of the metadata, exactly the records whose file can be read, each
\* with the size of its file; the records whose file is missing are left out.
C3_RebuildTolerant ==
    last.rebuilt =>
        ListedOf(videos) = IF hasOPFS THEN ReadableOf(meta) ELSE <<>>

\* A rebuild that left out an orphaned record and kept a readable one.
C3_Witness ==
    /\ last.rebuilt
    /\ videos # <<>>
    /\ Len(videos) < Len(meta)

\* C4: after handleRemove(name) has ended, however it ended, a page load's
\* rebuild does not list name.
C4_RemoveThenRebuild ==
    (last.op = "remove" /\ last.rebuilt) => last.name \notin SeqNames(videos)

\* A rebuild after a remove whose delete was rejected: the record of the name
\* is still in the metadata, and the rebuild skips it.
C4_Witness ==
    /\ last.op = "remove"
    /\ last.rebuilt
    /\ hasOPFS
    /\ meta # <<>>
    /\ last.name \in SeqNames(meta)

\* C5: after an import that reported success, the list holds every picked
\* file's name with that file's size, both as handleAdd rebuilt it and as a
\* page load's rebuild leaves it.
C5_ImportThenRebuild ==
    (Saved /\ mount.pc = "done") => \A k \in DOMAIN last.picks : Lists(videos, last.picks[k])

\* A page load's rebuild after an import of two files.
C5_Witness ==
    /\ Saved
    /\ last.rebuilt
    /\ Len(last.picks) = 2

\* C6 (as claimed): where handleRemove calls deleteFromOPFS(name), a call on
\* an absent name resolves and changes nothing, and so does a second call
\* right after the first.
C6_DeleteIdempotent ==
    rem.pc = "removeEntry" =>
        LET first == DeleteFromOPFS(opfs, rem.name)
            second == DeleteFromOPFS(first.store, rem.name)
        IN  /\ rem.name \notin DOMAIN opfs => first.ok /\ first.store = opfs
            /\ second.ok /\ second.store = first.store

\* C7: the metadata never holds two records of one name; when handleAdd has
\* stored the merged metadata it holds, for every picked file, the record
\* with that file's size, and every earlier record of another name.
C7_LatestSizeWins ==
    /\ NoDuplicateNames(meta)
    /\ add.pc = "rebuild" =>
          /\ \A k \in DOMAIN add.picks :
                \E j \in DOMAIN meta : meta[j] = [name |-> add.picks[k].name,
                                                  size |-> add.picks[k].size]
          /\ \A k \in DOMAIN add.existing :
                add.existing[k].name \notin SeqNames(add.picks) =>
                    \E j \in DOMAIN meta : meta[j] = add.existing[k]

\* A name imported a second time with another size, next to a record of
\* another name.
C7_Witness ==
    /\ add.pc = "rebuild"
    /\ \E k \in DOMAIN add.picks, j \in DOMAIN add.existing :
          /\ add.existing[j].name = add.picks[k].name
          /\ add.existing[j].size # add.picks[k].size
    /\ SeqNames(add.existing) \ SeqNames(add.picks) # {}

\* C8 (as claimed): a same-origin GET that arrives after a successful network
\* response for its URL has been returned is never answered with the
\* synthesized offline response.
C8_ServedThenCached ==
    ~ /\ handler.pc = "done"
      /\ handler.req.mode # "navigate"
      /\ handler.after
      /\ handler.response = Offline

\* C9: once activate has completed no cache but CACHE is left, and at its
\* completion CACHE holds what it held when the handler listed the keys.
C9_ActivateDeletesStale ==
    [][ /\ swState' = "activated" => DOMAIN caches' \subseteq {CACHE}
        /\ (swState = "activating" /\ swState' = "activated") =>
              /\ DOMAIN caches' = {CACHE}
              /\ caches'[CACHE] = act.current
              /\ caches'[CACHE] # << >> ]_vars

\* An activation that found and deleted two stale caches.
C9_Witness ==
    /\ swState = "activated"
    /\ act.stale = OldTags
    /\ DOMAIN caches = {CACHE}
    /\ handler.pc = "idle"

\* C10: a navigation whose fetch rejected is answered with the shell that
\* cache.match returned if it returned one, and otherwise with the
\* synthesized response of status 503.
C10_NavigateOffline ==
    (handler.pc = "done" /\ handler.req.mode = "navigate" /\ handler.net = "failed") =>
        /\ handler.response # NoResponse
        /\ IF handler.cached # NoResponse
           THEN handler.response = handler.cached /\ handler.response.from = "cache"
           ELSE handler.response.from = "synthesized" /\ ~Ok(handler.response)

\* A navigation answered with the cached shell after its fetch rejected.
C10_Witness ==
    /\ handler.pc = "done"
    /\ handler.req.mode = "navigate"
    /\ handler.net = "failed"
    /\ handler.response.from = "cache"

ShellURLs == {scopeURL(ASSETS[k]) : k \in DOMAIN ASSETS}

\* C12: an install ends in one of two ways. Either every shell asset is in
\* CACHE, all of one version, and the worker is installed; or the worker is
\* redundant, none of the assets is in CACHE and every cache that existed is
\* as it was. Only an installed worker activates, and a redundant one becomes
\* nothing but a fresh registration.
C12_InstallAllOrNothing ==
    [][ /\ (swState = "installing" /\ swState' # "installing") =>
              \/ /\ swState' = "installed"
                 /\ ShellURLs \subseteq DOMAIN caches'[CACHE]
                 /\ \A u, v \in ShellURLs : caches'[CACHE][u] = caches'[CACHE][v]
              \/ /\ swState' = "redundant"
                 /\ caches' = caches
                 /\ ShellURLs \cap DOMAIN caches'[CACHE] = {}
                 /\ act' = ActIdle
        /\ (swState' = "activating" /\ swState # "activating") => swState = "installed"
        /\ swState = "redundant" => swState' \in {"redundant", "parsed"} ]_vars

\* A failed install next to the two caches of earlier generations, which are
\* as they were.
C12_Witness ==
    /\ swState = "redundant"
    /\ OldTags \subseteq DOMAIN caches
    /\ \A n \in OldTags : caches[n] = [u \in {indexURL} |-> 0]
    /\ caches[CACHE] = << >>

\* C13: a fetch event whose request is not a GET, or is neither a navigation
\* nor of the worker's origin, ends in the same step with no response, no
\* fetch and no lookup of the handler's, and leaves the caches and the
\* pending puts as they were.
C13_PassThrough ==
    [][ LET req == handler'.req
        IN  (handler' # handler /\ req # NoRequest
                /\ (req.method # "GET"
                       \/ (req.mode # "navigate" /\ ~SameOrigin(req.url)))) =>
              /\ handler'.pc = "done"
              /\ handler'.response = NoResponse
              /\ handler'.cached = NoResponse
              /\ handler'.net = "none"
              /\ caches' = caches
              /\ puts' = puts ]_vars

\* A cross-origin GET passed through by the activated worker, the shell
\* being cached.
C13_Witness ==
    /\ handler.pc = "done"
    /\ handler.req = [method |-> "GET", mode |-> "no-cors", url |-> CrossURL]
    /\ handler.response = NoResponse
    /\ CacheMatch(caches, indexURL) # NoResponse

\* C14 (as claimed): when handleAdd ends because one of several picked files
\* failed, every other picked file is in OPFS with its size and has its record
\* in the metadata, and the message tells how many were saved and how many
\* failed, so it is not the same for every failed import.
C14_PartialImport ==
    [][ (hasOPFS /\ add.pc = "write" /\ add'.pc = "idle" /\ last'.op = "add"
            /\ Len(add.picks) > 1) =>
          /\ \A k \in DOMAIN add.picks \ {add.i} :
                /\ ReadFileFromOPFS(opfs', add.picks[k].name) =
                       [ok |-> TRUE, size |-> add.picks[k].size]
                /\ [name |-> add.picks[k].name, size |-> add.picks[k].size]
                       \in {meta'[j] : j \in DOMAIN meta'}
          /\ last'.toast # "Failed to add video" ]_vars

\* C15: without OPFS the directory and the metadata are never written; an
\* import whose files could all be read ends with the session-only warning,
\* and then every picked file is in the list with its size and an object URL,
\* after the entries that were listed before the import, no two entries
\* sharing a URL.
C15_SessionOnlyFallback ==
    [][ ~hasOPFS =>
          /\ opfs' = << >> /\ meta' = <<>>
          /\ (add.pc = "write" /\ add'.pc = "idle" /\ last'.op = "add"
                 /\ last'.toast # "Failed to add video") =>
                /\ last'.toast = "Video(s) added (session-only)"
                /\ Len(videos') >= Len(add.picks)
                /\ LET before == Len(videos') - Len(add.picks)
                   IN  \A k \in DOMAIN add.picks :
                          /\ videos'[before + k].name = add.picks[k].name
                          /\ videos'[before + k].size = add.picks[k].size
                          /\ videos'[before + k].url \in 1..nextUrl'
                /\ \A j, k \in DOMAIN videos' :
                      videos'[j].url = videos'[k].url => j = k ]_vars

\* Two files imported without OPFS, in a list that already held one entry.
C15_Witness ==
    /\ ~hasOPFS
    /\ last.op = "add"
    /\ last.toast = "Video(s) added (session-only)"
    /\ Len(videos) = 3
    /\ opfs = << >>
    /\ meta = <<>>

\* C16 (as claimed): whenever no operation is in flight, the object URLs
\* that have not been revoked are exactly the URLs of the listed videos.
C16_HandlesReleased ==
    Quiescent => Unreleased = {videos[k].url : k \in DOMAIN videos}

C18_ConsistentAfterRace ==
    Quiescent =>
        /\ SeqNames(videos) \subseteq SeqNames(meta)
        /\ SeqNames(meta) \subseteq DOMAIN opfs
====
